---------------------------- MODULE Spec2Model ----------------------------
(***************************************************************************)
(* Hook and MultiHook of lib/Hook.js (tapable): tap registration and       *)
(* ordering (_tap, _insert), the register phase of interceptors            *)
(* (_runRegisterInterceptors, intercept) and the lazily compiled entry     *)
(* points call / callAsync / promise (the *_DELEGATE stubs, _createCall,   *)
(* _resetCompilation), the views of withOptions and the fan-out of         *)
(* MultiHook over two hooks.                                               *)
(*                                                                         *)
(* JavaScript values are represented as follows.                           *)
(*   - a string is the sequence of its characters, so that trim() is       *)
(*     computed and not assumed;                                           *)
(*   - an optional number (stage) is the set of at most one integer, {}    *)
(*     standing for an absent key;                                         *)
(*   - before is [t, names]: t is "undefined", "string" or "array" and     *)
(*     names the set of the names it lists (the code turns both forms      *)
(*     into a Set, Hook.js 237-241);                                       *)
(*   - the value undefined stored in an array slot is Undefined;           *)
(*   - an array is a sequence; JavaScript index k is TLA+ index k + 1.     *)
(***************************************************************************)
EXTENDS Integers, Sequences, FiniteSets

VARIABLES
    taps,          \* this.taps: the array created at Hook.js 47
    interceptors,  \* this.interceptors: the array created at Hook.js 52
    call,          \* this.call
    callAsync,     \* this.callAsync
    promise,       \* this.promise
    compile,       \* this.compile: "abstract" (Hook's own, which throws) or
                   \* "implemented" (a subclass's)
    inflight,      \* the compiled function that is running now, or Idle
    sibling,       \* a second hook: its taps, interceptors and entry points
    last           \* the last operation: which it was, the options passed
                   \* to a tap*, what it threw, how often it asked the
                   \* Compiler

vars ==
    <<taps, interceptors, call, callAsync, promise, compile, inflight,
      sibling, last>>

-----------------------------------------------------------------------------
(* Bounds of the model. *)

MaxTaps == 2            \* tap* is not called on a list of this length (Spec)
MaxInterceptors == 1    \* intercept is not called on a list of this length (Spec)
MaxOrderTaps == 3       \* the same for taps, in SpecOrder
MaxRegTaps == 2         \* the same for taps, in SpecRegister
MaxRegInterceptors == 2 \* the same for interceptors, in SpecRegister

-----------------------------------------------------------------------------
(* Values. *)

Undefined == [undefined |-> TRUE]

NoError == "none"
InvalidTapOptions == "Invalid tap options"     \* Hook.js 112
MissingName == "Missing name for tap"          \* Hook.js 118
TypeError == "TypeError"                       \* reading a property of undefined
AbstractError == "Abstract: should be overridden"

Space == " "
A == <<"a">>
B == <<"b">>
Z == <<"z">>

Str(s) == [t |-> "string", s |-> s]
NoName == [t |-> "undefined", s |-> <<>>]
NumberName == [t |-> "number", s |-> <<>>]

NoBefore == [t |-> "undefined", names |-> {}]
BeforeString(n) == [t |-> "string", names |-> {n}]
BeforeArray(S) == [t |-> "array", names |-> S]

(* tap("a", fn): the options are a bare string. *)
StringOptions(s) ==
    [t |-> "string", name |-> Str(s), stage |-> {}, before |-> NoBefore]

(* tap({name, stage, before}, fn). *)
ObjectOptions(name, stage, before) ==
    [t |-> "object", name |-> name, stage |-> stage, before |-> before]

(* tap(null, fn), tap(7, fn), tap(undefined, fn). *)
NullOptions ==
    [t |-> "null", name |-> NoName, stage |-> {}, before |-> NoBefore]

-----------------------------------------------------------------------------
(* String.prototype.trim, Hook.js 115. *)

RECURSIVE trimStart(_)
trimStart(s) ==
    IF s # <<>> /\ Head(s) = Space THEN trimStart(Tail(s)) ELSE s

RECURSIVE trimEnd(_)
trimEnd(s) ==
    IF s # <<>> /\ s[Len(s)] = Space
    THEN trimEnd(SubSeq(s, 1, Len(s) - 1))
    ELSE s

trim(s) == trimEnd(trimStart(s))

-----------------------------------------------------------------------------
(* _tap, Hook.js 106-119: the options after normalisation, and the error   *)
(* the checks raise.  Of the keys of options, name, stage and before are   *)
(* modelled; the deprecation warning for context (Hook.js 122-124)         *)
(* changes no state of the hook.                                           *)

(* Variant of normalize that omits options.name.trim(). *)
normalizeNoTrim(options) ==
    IF options.t = "string"
    THEN [options EXCEPT !.t = "object"]
    ELSE options

normalize(options) ==
    LET o == IF options.t = "string"
             THEN [options EXCEPT !.t = "object"]
             ELSE options
    IN  IF o.t = "object" /\ o.name.t = "string"
        THEN [o EXCEPT !.name = Str(trim(o.name.s))]
        ELSE o

tapError(options) ==
    LET o == normalize(options)
    IN  IF o.t # "object" THEN InvalidTapOptions
        ELSE IF o.name.t # "string" \/ o.name.s = <<>> THEN MissingName
        ELSE NoError

(* Object.assign({ type, fn }, options), Hook.js 127. *)
tapRecord(type, options, fn) ==
    LET o == normalize(options)
    IN  [type |-> type, fn |-> fn, name |-> o.name.s,
         stage |-> o.stage, before |-> o.before]

-----------------------------------------------------------------------------
(* Interceptors.  Only the register phase acts on the state of the hook;   *)
(* an interceptor is [register |-> r], r naming the callback it carries:   *)
(*   "none"       no register phase (an interceptor with call, tap, ...)   *)
(*   "undefined"  tap => { }                  returns nothing              *)
(*   "same"       tap => tap                                               *)
(*   "stage"      tap => tap && { ...tap, stage: -1 }                      *)
(*   "before"     tap => tap && { ...tap, stage: 1, before: "a" }          *)
(*   "reenter"    tap => { hook.call(); return tap && { ...tap, stage: -1 } } *)
(*                where hook is the hook the interceptor is attached to    *)

Interceptor(r) == [register |-> r]

RegisterKinds == {"none", "undefined", "same", "stage", "before", "reenter"}

(* Whether the register callback invokes call on its hook. *)
reenters(interceptor) == interceptor.register = "reenter"

(* interceptor.register(tap), for an interceptor that has the phase. *)
register(interceptor, tap) ==
    CASE interceptor.register = "same" -> tap
      [] interceptor.register \in {"stage", "reenter"} ->
            IF tap = Undefined THEN Undefined
            ELSE [tap EXCEPT !.stage = {0 - 1}]
      [] interceptor.register = "before" ->
            IF tap = Undefined THEN Undefined
            ELSE [tap EXCEPT !.stage = {1}, !.before = BeforeString(A)]
      [] OTHER -> Undefined

(* One turn of the loop of _runRegisterInterceptors, Hook.js 162-167. *)
registerStep(interceptor, options) ==
    IF interceptor.register # "none"
    THEN LET newOptions == register(interceptor, options)
         IN  IF newOptions # Undefined THEN newOptions ELSE options
    ELSE options

(* _runRegisterInterceptors, Hook.js 160-170, over the interceptors from  *)
(* index k on.                                                            *)
RECURSIVE runRegisterFrom(_, _, _)
runRegisterFrom(ics, k, options) ==
    IF k > Len(ics) THEN options
    ELSE runRegisterFrom(ics, k + 1, registerStep(ics[k], options))

(* Variant of _runRegisterInterceptors that goes through the interceptors *)
(* from the last to the first.                                            *)
RECURSIVE runRegisterDownFrom(_, _, _)
runRegisterDownFrom(ics, k, options) ==
    IF k < 1 THEN options
    ELSE runRegisterDownFrom(ics, k - 1, registerStep(ics[k], options))

runRegisterReversed(ics, options) ==
    runRegisterDownFrom(ics, Len(ics), options)

(* Variant of _runRegisterInterceptors that runs no register phase. *)
runRegisterSkipped(ics, options) == options

_runRegisterInterceptors(ics, options) == runRegisterFrom(ics, 1, options)

(* The loop of intercept, Hook.js 207-211: every slot is assigned what    *)
(* register returns.                                                      *)
interceptTaps(interceptor, list) ==
    IF interceptor.register # "none"
    THEN [i \in 1..Len(list) |-> register(interceptor, list[i])]
    ELSE list

-----------------------------------------------------------------------------
(* _insert, Hook.js 232-278. *)

(* this.taps[k] = v for a JavaScript index k <= length. *)
arraySet(list, k, v) ==
    IF k = Len(list) THEN Append(list, v) ELSE [list EXCEPT ![k + 1] = v]

(* Hook.js 251-254 and 261. *)
stageOf(rec) == IF rec.stage = {} THEN 0 ELSE CHOOSE n \in rec.stage : TRUE

(* Variant of laterStage with >= for >. *)
laterStageOrEqual(tap, item) == stageOf(tap) >= stageOf(item)

(* Hook.js 271: the scan goes on past a tap of greater stage. *)
laterStage(tap, item) == stageOf(tap) > stageOf(item)

(* Variant of hasBefore for an _insert that reads no before. *)
hasNoBefore(item) == FALSE

(* Hook.js 236-241: whether the variable before holds a Set. *)
hasBefore(item) == item.before.t # "undefined"

(* taps.some(tap => tap.name === name), Hook.js 244: true, false, or the  *)
(* TypeError of reading .name of an undefined slot met before a match.    *)
someNamed(list, name) ==
    LET hits == {i \in 1..Len(list) : list[i] # Undefined /\ list[i].name = name}
        holes == {i \in 1..Len(list) : list[i] = Undefined}
    IN  IF \E h \in holes : \A i \in hits : h < i THEN TypeError
        ELSE IF hits # {} THEN "true" ELSE "false"

(* Variant of existingBefore that deletes no name. *)
existingBeforeKeepAll(list, item) == item.before.names

(* Hook.js 242-248: the names of before that some tap of the list bears. *)
existingBefore(list, item) ==
    {name \in item.before.names : someNamed(list, name) = "true"}

beforeThrows(list, item) ==
    \E name \in item.before.names : someNamed(list, name) = TypeError

(* The while loop, Hook.js 256-276, from the state (list, i, before) on:  *)
(* the list after the loop, the index i it ends with, and what it threw.  *)
RECURSIVE insertLoop(_, _, _, _)
insertLoop(list, i, before, item) ==
    IF i > 0
    THEN LET j == i - 1
             tap == list[j + 1]
             shifted == arraySet(list, j + 1, tap)
         IN  IF tap = Undefined
             THEN [taps |-> shifted, i |-> j, thrown |-> TypeError]
             ELSE IF hasBefore(item) /\ tap.name \in before
             THEN insertLoop(shifted, j, before \ {tap.name}, item)
             ELSE IF hasBefore(item) /\ before # {}
             THEN insertLoop(shifted, j, before, item)
             ELSE IF laterStage(tap, item)
             THEN insertLoop(shifted, j, before, item)
             ELSE [taps |-> shifted, i |-> j + 1, thrown |-> NoError]
    ELSE [taps |-> list, i |-> i, thrown |-> NoError]

(* _insert without its first line (the reset): the array afterwards, the  *)
(* index the item went to and what was thrown.                            *)
_insert(list, item) ==
    IF beforeThrows(list, item)
    THEN [taps |-> list, i |-> 0 - 1, thrown |-> TypeError]
    ELSE LET r == insertLoop(list, Len(list), existingBefore(list, item), item)
         IN  IF r.thrown # NoError
             THEN [taps |-> r.taps, i |-> 0 - 1, thrown |-> r.thrown]
             ELSE [taps |-> arraySet(r.taps, r.i, item), i |-> r.i,
                   thrown |-> NoError]

-----------------------------------------------------------------------------
(* The entry points, Hook.js 23-34, 59-64, 93-100 and 218-222.             *)
(*                                                                         *)
(* A function value is a record.  What the Compiler returns is modelled    *)
(* as the closure over the options object it was given: options.taps and   *)
(* options.interceptors are the array objects of the hook themselves       *)
(* (Hook.js 95-96 passes this.taps, not a copy), so they are references,   *)
(* read through contents().  seen records what these arrays held when the  *)
(* Compiler was asked; it is bookkeeping of the model, not state of the    *)
(* program.                                                                *)

CALL_DELEGATE == [fn |-> "CALL_DELEGATE"]
CALL_ASYNC_DELEGATE == [fn |-> "CALL_ASYNC_DELEGATE"]
PROMISE_DELEGATE == [fn |-> "PROMISE_DELEGATE"]

(* this._call, this._callAsync, this._promise: set at Hook.js 59-63 and   *)
(* never assigned again.                                                   *)
_call == CALL_DELEGATE
_callAsync == CALL_ASYNC_DELEGATE
_promise == PROMISE_DELEGATE

Idle == [fn |-> "idle"]

_args == <<"arg">>

TapsArray == "this.taps"
InterceptorsArray == "this.interceptors"

contents(ref) == IF ref = TapsArray THEN taps ELSE interceptors

compiled(options) ==
    [fn |-> "compiled", options |-> options,
     seen |-> [taps |-> contents(options.taps),
               interceptors |-> contents(options.interceptors)]]

(* The same for a Compiler asked in the middle of an operation, when the  *)
(* arrays hold seenTaps and seenInterceptors.                             *)
compiledSeeing(options, seenTaps, seenInterceptors) ==
    [fn |-> "compiled", options |-> options,
     seen |-> [taps |-> seenTaps, interceptors |-> seenInterceptors]]

IsCompiled(f) == DOMAIN f = {"fn", "options", "seen"}

(* Variant of compileThrows for a compile that returns a function. *)
compileReturns == FALSE

(* Hook.js 86-88: whether this.compile is Hook's own, which throws. *)
compileThrows == compile = "abstract"

_createCall(type) ==
    compiled([taps |-> TapsArray, interceptors |-> InterceptorsArray,
              args |-> _args, type |-> type])

(* _createCall("sync") from inside a register callback. *)
_createCallSeeing(seenTaps, seenInterceptors) ==
    compiledSeeing([taps |-> TapsArray, interceptors |-> InterceptorsArray,
                    args |-> _args, type |-> "sync"],
                   seenTaps, seenInterceptors)

(* Variant of _resetCompilation that resets call alone. *)
resetOnlyCall ==
    [call |-> _call, callAsync |-> callAsync, promise |-> promise]

_resetCompilation ==
    [call |-> _call, callAsync |-> _callAsync, promise |-> _promise]

Types == {"sync", "async", "promise"}

entry(type) ==
    CASE type = "sync" -> call
      [] type = "async" -> callAsync
      [] type = "promise" -> promise

delegate(type) ==
    CASE type = "sync" -> CALL_DELEGATE
      [] type = "async" -> CALL_ASYNC_DELEGATE
      [] type = "promise" -> PROMISE_DELEGATE

(* No options: the operation was not a tap*. *)
NoOptions == [t |-> "none"]

Last(op, options, thrown, asked) ==
    [op |-> op, options |-> options, thrown |-> thrown, asked |-> asked]

-----------------------------------------------------------------------------
(* The state after new Hook(args, name), Hook.js 44-80, for Hook itself    *)
(* and for a subclass that implements compile.                             *)

(* The fields a constructor sets and the methods assign, as one record. *)
NewHook ==
    [taps |-> <<>>, interceptors |-> <<>>, call |-> CALL_DELEGATE,
     callAsync |-> CALL_ASYNC_DELEGATE, promise |-> PROMISE_DELEGATE]

Init ==
    /\ taps = NewHook.taps
    /\ interceptors = NewHook.interceptors
    /\ call = NewHook.call
    /\ callAsync = NewHook.callAsync
    /\ promise = NewHook.promise
    /\ compile \in {"implemented", "abstract"}
    /\ inflight = Idle
    /\ sibling = NewHook
    /\ last = Last("new", NoOptions, NoError, 0)

(* The first hook, whose fields are the variables, as such a record. *)
This ==
    [taps |-> taps, interceptors |-> interceptors, call |-> call,
     callAsync |-> callAsync, promise |-> promise]

Outcome(h, thrown, asked) == [hook |-> h, thrown |-> thrown, asked |-> asked]

-----------------------------------------------------------------------------
(* Registration, Hook.js 106-155. *)

(* The callback handed to a tap* call: one that no tap of the list holds. *)
Callbacks == {Len(taps) + 1}

(* h._tap(type, options, fn), Hook.js 106-134: the hook afterwards, what  *)
(* was thrown and how often the Compiler was asked.  A register callback  *)
(* that invokes h.call goes through the delegate when h.call is the stub: *)
(* the function it installs is replaced by the stub again when _insert    *)
(* resets (Hook.js 233), and an abstract compile throws out of _tap       *)
(* before _insert.  The actions bind the outcome r of a call once, as the *)
(* one element of a set.                                                  *)
tapOn(h, type, options, fn) ==
    LET compiles == h.call = _call /\
                    \E k \in 1..Len(h.interceptors) : reenters(h.interceptors[k])
    IN  IF tapError(options) # NoError
        THEN Outcome(h, tapError(options), 0)
        ELSE IF compiles /\ compileThrows
        THEN Outcome(h, AbstractError, 1)
        ELSE LET item == _runRegisterInterceptors(
                             h.interceptors, tapRecord(type, options, fn))
                 r == _insert(h.taps, item)
                 reset == _resetCompilation
             IN  Outcome([taps |-> r.taps, interceptors |-> h.interceptors,
                          call |-> reset.call, callAsync |-> reset.callAsync,
                          promise |-> reset.promise],
                         r.thrown, IF compiles THEN 1 ELSE 0)

_tap(op, type, options, fn) ==
    \E r \in {tapOn(This, type, options, fn)} :
        /\ taps' = r.hook.taps
        /\ call' = r.hook.call
        /\ callAsync' = r.hook.callAsync
        /\ promise' = r.hook.promise
        /\ last' = Last(op, options, r.thrown, r.asked)
        /\ UNCHANGED <<interceptors, compile, inflight, sibling>>

tap(options, fn) == _tap("tap", "sync", options, fn)

tapAsync(options, fn) == _tap("tapAsync", "async", options, fn)

tapPromise(options, fn) == _tap("tapPromise", "promise", options, fn)

(* intercept, Hook.js 202-212.  Object.assign({}, interceptor) copies the *)
(* record; a record value is its own copy.                                *)
(* When the register callback invokes h.call, its first run, on the tap  *)
(* of index 0, finds the stub that Hook.js 203 has just put back: the     *)
(* delegate asks the Compiler, which sees the new interceptor and the     *)
(* taps none of which is replaced yet, and installs the result; the loop  *)
(* then goes on to replace the taps.  An abstract compile throws out of   *)
(* the loop.                                                              *)
interceptOn(h, interceptor) ==
    LET reset == _resetCompilation
        pushed == Append(h.interceptors, interceptor)
        compiles == reenters(interceptor) /\ h.taps # <<>>
        stubs == [taps |-> h.taps, interceptors |-> pushed,
                  call |-> reset.call, callAsync |-> reset.callAsync,
                  promise |-> reset.promise]
    IN  IF compiles /\ compileThrows
        THEN Outcome(stubs, AbstractError, 1)
        ELSE Outcome(
                 [stubs EXCEPT
                     !.taps = interceptTaps(interceptor, h.taps),
                     !.call = IF compiles
                              THEN _createCallSeeing(h.taps, pushed)
                              ELSE reset.call],
                 NoError, IF compiles THEN 1 ELSE 0)

intercept(interceptor) ==
    \E r \in {interceptOn(This, interceptor)} :
        /\ taps' = r.hook.taps
        /\ interceptors' = r.hook.interceptors
        /\ call' = r.hook.call
        /\ callAsync' = r.hook.callAsync
        /\ promise' = r.hook.promise
        /\ last' = Last("intercept", NoOptions, r.thrown, r.asked)
        /\ UNCHANGED <<compile, inflight, sibling>>

-----------------------------------------------------------------------------
(* Invocation.  hook.call(...) runs the function the entry point holds:   *)
(* the delegate, Hook.js 23-34, which asks for a compiled function,       *)
(* installs it and runs it, or the function installed earlier.  The       *)
(* compiled function is the Compiler's code; it runs the callbacks of the *)
(* taps, which may register taps and interceptors before it returns, so   *)
(* its run is the span between the invocation and finish.  A synchronous  *)
(* function compiled from no tap and no interceptor runs no callback and  *)
(* has returned when the invocation has.  One invocation is in flight at  *)
(* a time.                                                                *)

runsCallbacks(f) ==
    \/ f.options.type # "sync"
    \/ f.seen.taps # <<>>
    \/ f.seen.interceptors # <<>>

running(f) == IF IsCompiled(f) /\ runsCallbacks(f) THEN f ELSE Idle

(* Variant of installed in which the delegate assigns nothing. *)
notInstalled(type, f) ==
    [call |-> call, callAsync |-> callAsync, promise |-> promise]

(* this.call = f, this.callAsync = f or this.promise = f, Hook.js 24, 28, *)
(* 32: the three entry points after the assignment.                       *)
installed(type, f) ==
    [call |-> IF type = "sync" THEN f ELSE call,
     callAsync |-> IF type = "async" THEN f ELSE callAsync,
     promise |-> IF type = "promise" THEN f ELSE promise]

invoke(op, type) ==
    /\ inflight = Idle
    /\ IF entry(type) = delegate(type)
       THEN IF compileThrows
            THEN /\ last' = Last(op, NoOptions, AbstractError, 1)
                 /\ UNCHANGED <<call, callAsync, promise, inflight>>
            ELSE LET f == _createCall(type)
                     e == installed(type, f)
                 IN  /\ call' = e.call
                     /\ callAsync' = e.callAsync
                     /\ promise' = e.promise
                     /\ inflight' = running(
                            CASE type = "sync" -> e.call
                              [] type = "async" -> e.callAsync
                              [] type = "promise" -> e.promise)
                     /\ last' = Last(op, NoOptions, NoError, 1)
       ELSE /\ inflight' = running(entry(type))
            /\ last' = Last(op, NoOptions, NoError, 0)
            /\ UNCHANGED <<call, callAsync, promise>>
    /\ UNCHANGED <<taps, interceptors, compile, sibling>>

finish ==
    /\ inflight # Idle
    /\ inflight' = Idle
    /\ last' = Last("finish", NoOptions, NoError, 0)
    /\ UNCHANGED <<taps, interceptors, call, callAsync, promise, compile,
                   sibling>>

-----------------------------------------------------------------------------
(* Spec: one hook, every operation, few kinds of tap. *)

SpecOptions ==
    { StringOptions(A),
      ObjectOptions(Str(<<Space, "b", Space>>), {1}, NoBefore),
      StringOptions(<<Space, Space>>),
      ObjectOptions(NoName, {}, NoBefore),
      ObjectOptions(NumberName, {}, NoBefore),
      NullOptions }

SpecInterceptors == {Interceptor("same")}

CanTap(options, bound) == tapError(options) # NoError \/ Len(taps) < bound

Next ==
    \/ \E options \in SpecOptions, fn \in Callbacks :
          CanTap(options, MaxTaps) /\ tap(options, fn)
    \/ \E options \in SpecOptions, fn \in Callbacks :
          CanTap(options, MaxTaps) /\ tapAsync(options, fn)
    \/ \E options \in SpecOptions, fn \in Callbacks :
          CanTap(options, MaxTaps) /\ tapPromise(options, fn)
    \/ \E interceptor \in SpecInterceptors :
          Len(interceptors) < MaxInterceptors /\ intercept(interceptor)
    \/ invoke("call", "sync")
    \/ invoke("callAsync", "async")
    \/ invoke("promise", "promise")
    \/ finish

Spec == Init /\ [][Next]_vars

-----------------------------------------------------------------------------
(* SpecOrder: registration alone, with every combination of name, stage   *)
(* and before, on a hook without interceptors.                            *)

Names == {A, B}

Stages == {{}, {0 - 1}, {1}}

OrderBefores == {NoBefore, BeforeString(A), BeforeArray({B, Z})}

OrderOptions ==
    {ObjectOptions(Str(name), stage, before) :
        name \in Names, stage \in Stages, before \in OrderBefores}

InitOrder == Init /\ compile = "implemented"

NextOrder ==
    \E options \in OrderOptions, fn \in Callbacks :
        Len(taps) < MaxOrderTaps /\ tap(options, fn)

SpecOrder == InitOrder /\ [][NextOrder]_vars

-----------------------------------------------------------------------------
(* SpecRegister: registration and interception, with interceptors of      *)
(* every kind of register phase.                                          *)

RegisterOptions ==
    {ObjectOptions(Str(name), stage, NoBefore) :
        name \in Names, stage \in {{}, {1}}}

RegisterInterceptors ==
    {Interceptor(r) : r \in {"none", "undefined", "stage", "before"}}

NextRegister ==
    \/ \E options \in RegisterOptions, fn \in Callbacks :
          Len(taps) < MaxRegTaps /\ tap(options, fn)
    \/ \E interceptor \in RegisterInterceptors :
          Len(interceptors) < MaxRegInterceptors /\ intercept(interceptor)

SpecRegister == InitOrder /\ [][NextRegister]_vars

-----------------------------------------------------------------------------
(* Properties of Spec. *)

TapOps == {"tap", "tapAsync", "tapPromise"}

AllStubs == call = _call /\ callAsync = _callAsync /\ promise = _promise

Mutated == taps' # taps \/ interceptors' # interceptors

(* Every installed compiled function was compiled from the lists as they  *)
(* are now.                                                               *)
NoStaleEntry ==
    \A type \in Types :
        entry(type) # delegate(type) =>
            /\ IsCompiled(entry(type))
            /\ entry(type).options.type = type
            /\ entry(type).seen = [taps |-> taps, interceptors |-> interceptors]

(* C1: every step that changes the tap list or the interceptor list (a    *)
(* tap* or an intercept) leaves call, callAsync and promise all three at  *)
(* their uncompiled stubs, whichever of them had been compiled, so a      *)
(* compiled function is installed only by an invocation after the change  *)
(* and was given the lists as they are after it.                          *)
C1_MutationResetsAllEntryPoints ==
    [][(Mutated => AllStubs') /\ NoStaleEntry']_vars

(* A tap was registered from inside a running callAsync: the function in  *)
(* flight was compiled before the tap, and all three entry points are     *)
(* stubs again.                                                           *)
C1_Witness ==
    /\ last.op \in TapOps \cup {"intercept"}
    /\ last.thrown = NoError
    /\ IsCompiled(inflight)
    /\ inflight.options.type = "async"
    /\ inflight.seen.taps # taps
    /\ AllStubs

(* The name of the options is missing, not a string, or blank. *)
NameInvalid(options) ==
    /\ options.t \in {"string", "object"}
    /\ \/ options.name.t # "string"
       \/ \A i \in 1..Len(options.name.s) : options.name.s[i] = Space

(* C6: a tap, tapAsync or tapPromise whose name is missing, not a string, *)
(* or empty after trimming throws "Missing name for tap" and leaves the   *)
(* tap list as it was, in every state of the hook.                        *)
C6_InvalidNameRejected ==
    [][(last'.op \in TapOps /\ NameInvalid(last'.options))
          => (last'.thrown = MissingName /\ taps' = taps)]_vars

(* tapAsync with an invalid name was refused on a hook that holds a tap   *)
(* and a compiled call.                                                   *)
C6_Witness ==
    /\ last.op = "tapAsync"
    /\ last.options = StringOptions(<<Space, Space>>)
    /\ last.thrown = MissingName
    /\ Len(taps) > 0
    /\ call # _call

(* C9: with a Compiler implemented, an invocation through a stub asks the *)
(* Compiler exactly once, installs what it returns as that entry point    *)
(* and runs it; an invocation through an installed function runs that     *)
(* function, asks the Compiler nothing and leaves the entry point as it   *)
(* is.                                                                    *)
C9_CompileOnce ==
    [][\A type \in Types :
          (/\ compile = "implemented"
           /\ last'.op = CASE type = "sync" -> "call"
                           [] type = "async" -> "callAsync"
                           [] type = "promise" -> "promise")
          => IF entry(type) = delegate(type)
             THEN /\ last'.asked = 1
                  /\ entry(type)' # delegate(type)
                  /\ IsCompiled(entry(type)')
                  /\ inflight' = running(entry(type)')
             ELSE /\ last'.asked = 0
                  /\ entry(type)' = entry(type)
                  /\ inflight' = running(entry(type))]_vars

(* A call that ran the installed function without asking the Compiler. *)
C9_Witness ==
    /\ last.op = "call"
    /\ last.asked = 0
    /\ last.thrown = NoError
    /\ inflight = call
    /\ IsCompiled(call)

(* C10: the tap list and the interceptor list handed to the Compiler for  *)
(* a compilation hold, for as long as the compiled function is installed  *)
(* or running, what they held when the Compiler was asked.                *)
C10_CompiledSnapshotUnchanged ==
    \A f \in {call, callAsync, promise, inflight} :
        IsCompiled(f) =>
            /\ contents(f.options.taps) = f.seen.taps
            /\ contents(f.options.interceptors) = f.seen.interceptors

-----------------------------------------------------------------------------
(* Properties of SpecOrder.  A tap's fn tells when it was registered: the *)
(* k-th registration of SpecOrder passes the callback k.                  *)

StageOrZero(rec) ==
    IF rec.stage = {} THEN 0 ELSE CHOOSE n \in rec.stage : TRUE

StageOnly == \A i \in 1..Len(taps) : taps[i].before = NoBefore

(* C2: when every tap was registered with a stage or nothing (no before), *)
(* the list is non-decreasing in stage, a missing stage counting as 0,    *)
(* and taps of equal stage stand in the order of their registration.      *)
C2_StageOrderStable ==
    StageOnly =>
        \A i, j \in 1..Len(taps) :
            i < j =>
                /\ StageOrZero(taps[i]) <= StageOrZero(taps[j])
                /\ StageOrZero(taps[i]) = StageOrZero(taps[j])
                      => taps[i].fn < taps[j].fn

(* Three stage-only taps, two of them of equal stage, one of which was    *)
(* registered after a tap that now follows it.                            *)
C2_Witness ==
    /\ StageOnly
    /\ Len(taps) = 3
    /\ \E i, j \in 1..3 :
          i < j /\ StageOrZero(taps[i]) = StageOrZero(taps[j])
    /\ \E i, j \in 1..3 : i < j /\ taps[i].fn > taps[j].fn
    /\ \E i \in 1..3 : taps[i].stage = {}

(* C3: a tap whose before names a tap registered earlier stands before    *)
(* that tap, at once and after every later registration (and so along a   *)
(* chain of before references).                                           *)
C3_BeforeNamedTap ==
    \A i, j \in 1..Len(taps) :
        (taps[j].fn < taps[i].fn /\ taps[j].name \in taps[i].before.names)
            => i < j

(* The tap registered last, and where it stands. *)
NewestAt(p) == p \in 1..Len(taps) /\ taps[p].fn = Len(taps)

(* C4: right after an insertion no tap standing before the new tap bears  *)
(* a name the new tap's before lists.                                     *)
C4_NoNamedTapEarlier ==
    \A p \in 1..Len(taps) :
        NewestAt(p) =>
            \A q \in 1..(p - 1) : taps[q].name \notin taps[p].before.names

(* C3 and C4 restricted to lists in which no two taps share a name: this  *)
(* holds, so the two fail through taps that share a name only.            *)
UniqueNames ==
    \A i, j \in 1..Len(taps) : taps[i].name = taps[j].name => i = j

BeforeHoldsForUniqueNames ==
    UniqueNames => C3_BeforeNamedTap /\ C4_NoNamedTapEarlier

BeforeValues ==
    {NoBefore} \cup {BeforeString(n) : n \in Names \cup {Z}}
               \cup {BeforeArray(S) : S \in SUBSET (Names \cup {Z})}

NamesOf(list) == {list[i].name : i \in 1..Len(list)}

Item(name, stage, before) ==
    [type |-> "sync", fn |-> Len(taps) + 1, name |-> name,
     stage |-> stage, before |-> before]

(* C5: inserting a tap whose before lists only names no tap of the list   *)
(* bears gives the list that inserting it without before gives: the same  *)
(* index, the same taps around it.                                        *)
SameButBefore(with, without) ==
    /\ with.thrown = NoError
    /\ with.i = without.i
    /\ Len(with.taps) = Len(without.taps)
    /\ [with.taps EXCEPT ![with.i + 1].before = NoBefore] = without.taps

C5_MissingBeforeIsNoOp ==
    LET present == NamesOf(taps)
        missing == {b \in BeforeValues :
                       b # NoBefore /\ b.names \cap present = {}}
    IN  \A name \in Names, stage \in Stages :
            LET without == _insert(taps, Item(name, stage, NoBefore))
            IN  \A before \in missing :
                    SameButBefore(_insert(taps, Item(name, stage, before)),
                                  without)

(* A tap with before: ["b", "z"] was registered on a list of two taps,    *)
(* none named b or z, and did not go to the front.                        *)
C5_Witness ==
    /\ Len(taps) = 3
    /\ \E p \in 2..3 :
          /\ NewestAt(p)
          /\ taps[p].before = BeforeArray({B, Z})
          /\ \A q \in 1..3 : q # p => taps[q].name = A

-----------------------------------------------------------------------------
(* Properties of SpecRegister. *)

(* The interceptor the last intercept attached. *)
Attached == interceptors[Len(interceptors)]

(* What a tap becomes when it is passed through the register phases of    *)
(* the interceptors k.. of ics, in their order: each phase that returns a *)
(* record replaces it.                                                    *)
RECURSIVE PassedThrough(_, _, _)
PassedThrough(ics, k, rec) ==
    IF k > Len(ics) THEN rec
    ELSE IF ics[k].register = "none" \/ register(ics[k], rec) = Undefined
    THEN PassedThrough(ics, k + 1, rec)
    ELSE PassedThrough(ics, k + 1, register(ics[k], rec))

(* C7: intercept with a register phase puts register(Ti) into the slot of *)
(* every tap Ti, the list keeping its length and order (no re-sorting);   *)
(* a tap registered afterwards is stored as the record the register       *)
(* phases return for it, at the place _insert gives that record (its      *)
(* stage and before, not the caller's).                                   *)
C7_RegisterReplacesInPlace ==
    [][/\ (last'.op = "intercept" /\ Attached'.register # "none") =>
              /\ Len(taps') = Len(taps)
              /\ \A i \in 1..Len(taps) :
                    taps'[i] = register(Attached', taps[i])
       /\ \A options \in RegisterOptions, fn \in Callbacks :
              (tap(options, fn) /\ last'.thrown = NoError) =>
                  LET out == PassedThrough(interceptors, 1,
                                 tapRecord("sync", options, fn))
                      placed == _insert(taps, out)
                  IN  /\ taps' = placed.taps
                      /\ taps'[placed.i + 1] = out]_vars

(* With one interceptor whose register returns                           *)
(* { ...tap, stage: 1, before: "a" }: the tap named a holds that stage,   *)
(* and the tap registered after it was stored with that stage and before  *)
(* and stands before it.                                                  *)
C7_Witness ==
    /\ last.op = "tap"
    /\ last.thrown = NoError
    /\ interceptors = <<Interceptor("before")>>
    /\ Len(taps) = 2
    /\ taps[1] # Undefined /\ taps[2] # Undefined
    /\ taps[1].fn = 2 /\ taps[2].fn = 1
    /\ taps[2].name = A /\ taps[2].stage = {1}
    /\ taps[1].stage = {1} /\ taps[1].before = BeforeString(A)

(* C8: attaching an interceptor whose register returns nothing leaves     *)
(* every registered tap as it was.                                        *)
C8_UndefinedRegisterKeepsTaps ==
    [][(last'.op = "intercept" /\ Attached'.register = "undefined")
          => taps' = taps]_vars

-----------------------------------------------------------------------------
(* Properties of Spec: a hook whose compile is Hook's own. *)

InvokeOps == {"call", "callAsync", "promise"}

(* C11: on a hook without a Compiler every call, callAsync and promise    *)
(* throws "Abstract: should be overridden" out of the invocation itself,  *)
(* runs nothing, leaves the three entry points at their stubs and the tap *)
(* list and the interceptor list as they were; the entry points being     *)
(* stubs in every state, every later invocation fails likewise.           *)
C11_AbstractCompileAlwaysThrows ==
    [][(compile = "abstract" /\ last'.op \in InvokeOps) =>
          /\ last'.thrown = AbstractError
          /\ last'.asked = 1
          /\ AllStubs /\ AllStubs'
          /\ inflight' = Idle
          /\ taps' = taps
          /\ interceptors' = interceptors]_vars

(* promise() has thrown on an abstract hook that holds two taps and an    *)
(* interceptor.                                                           *)
C11_Witness ==
    /\ compile = "abstract"
    /\ last.op = "promise"
    /\ last.thrown = AbstractError
    /\ Len(taps) = 2
    /\ Len(interceptors) = 1
    /\ promise = _promise

-----------------------------------------------------------------------------
(* withOptions, Hook.js 177-190.  A view is the closure of the object     *)
(* withOptions returns: the hook (here the first hook) and the options    *)
(* it captured.                                                           *)

EmptyOptions == ObjectOptions(NoName, {}, NoBefore)

(* typeof opt === "string" ? { name: opt } : opt, Hook.js 179. *)
nameIfString(opt) ==
    IF opt.t = "string" THEN [opt EXCEPT !.t = "object"] ELSE opt

(* Object.assign(target, source): the keys source holds overwrite those   *)
(* of target; null, undefined and a number hold none, and those a string  *)
(* holds (its indices) are none of name, stage, before.                   *)
assign(target, source) ==
    IF source.t # "object" THEN target
    ELSE [t |-> "object",
          name |-> IF source.name # NoName THEN source.name ELSE target.name,
          stage |-> IF source.stage # {} THEN source.stage ELSE target.stage,
          before |-> IF source.before # NoBefore THEN source.before
                     ELSE target.before]

(* Variant of mergeOptions in which the captured options overwrite the    *)
(* caller's.                                                              *)
mergeOptionsUnderDefaults(options, opt) ==
    assign(assign(EmptyOptions, nameIfString(opt)), options)

(* mergeOptions, Hook.js 178-179, of the view that captured options. *)
mergeOptions(options, opt) ==
    assign(assign(EmptyOptions, options), nameIfString(opt))

(* hook.withOptions(options). *)
withOptions(options) == [options |-> options]

(* view.withOptions(opt), Hook.js 188. *)
viewWithOptions(view, opt) == withOptions(mergeOptions(view.options, opt))

(* view.tap(opt, fn), Hook.js 183. *)
viewTap(view, opt, fn) == tap(mergeOptions(view.options, opt), fn)

(* view.tapAsync(opt, fn), Hook.js 184. *)
viewTapAsync(view, opt, fn) == tapAsync(mergeOptions(view.options, opt), fn)

(* view.tapPromise(opt, fn), Hook.js 185. *)
viewTapPromise(view, opt, fn) ==
    tapPromise(mergeOptions(view.options, opt), fn)

(* view.intercept(interceptor), Hook.js 186. *)
viewIntercept(view, interceptor) == intercept(interceptor)

-----------------------------------------------------------------------------
(* SpecView: registration through views of the first hook: tap and        *)
(* tapPromise through hook.withOptions(d1), tapAsync through              *)
(* hook.withOptions(d1).withOptions(d2).                                  *)

MaxViewTaps == 2        \* a view's tap* is not called on a list of this length

Defaults1 == { ObjectOptions(Str(B), {1}, BeforeString(A)) }

Defaults2 ==
    { ObjectOptions(NoName, {0 - 1}, NoBefore),
      StringOptions(B) }

ViewOptions ==
    { StringOptions(A),
      ObjectOptions(Str(B), {0}, NoBefore),
      ObjectOptions(NoName, {}, BeforeString(B)),
      NullOptions }

NextView ==
    \/ \E d1 \in Defaults1, opt \in ViewOptions, fn \in Callbacks :
          /\ CanTap(mergeOptions(d1, opt), MaxViewTaps)
          /\ viewTap(withOptions(d1), opt, fn)
    \/ \E d1 \in Defaults1, d2 \in Defaults2, opt \in ViewOptions,
          fn \in Callbacks :
          LET view == viewWithOptions(withOptions(d1), d2)
          IN  /\ CanTap(mergeOptions(view.options, opt), MaxViewTaps)
              /\ viewTapAsync(view, opt, fn)
    \/ \E d1 \in Defaults1, opt \in ViewOptions, fn \in Callbacks :
          /\ CanTap(mergeOptions(d1, opt), MaxViewTaps)
          /\ viewTapPromise(withOptions(d1), opt, fn)
    \/ \E d1 \in Defaults1, interceptor \in SpecInterceptors :
          /\ Len(interceptors) < MaxInterceptors
          /\ viewIntercept(withOptions(d1), interceptor)

SpecView == InitOrder /\ [][NextView]_vars

-----------------------------------------------------------------------------
(* Properties of SpecView. *)

(* The keys an argument of a view contributes: a string its name, an      *)
(* object its keys, anything else none.                                   *)
KeysOf(opt) ==
    IF opt.t = "string" THEN ObjectOptions(opt.name, {}, NoBefore)
    ELSE IF opt.t = "object" THEN opt
    ELSE EmptyOptions

(* The options in which each key has the value of the first of high,      *)
(* middle, low that holds the key.                                        *)
Precedence(high, middle, low) ==
    LET h == KeysOf(high)
        m == KeysOf(middle)
        l == KeysOf(low)
    IN  ObjectOptions(
            IF h.name # NoName THEN h.name
            ELSE IF m.name # NoName THEN m.name ELSE l.name,
            IF h.stage # {} THEN h.stage
            ELSE IF m.stage # {} THEN m.stage ELSE l.stage,
            IF h.before # NoBefore THEN h.before
            ELSE IF m.before # NoBefore THEN m.before ELSE l.before)

(* The step is what hook.tap / tapAsync / tapPromise (by type) does when  *)
(* called on the hook itself with options and fn.                         *)
RegistersDirectly(type, options, fn) ==
    LET r == tapOn(This, type, options, fn)
    IN  /\ taps' = r.hook.taps
        /\ <<call', callAsync', promise'>> =
              <<r.hook.call, r.hook.callAsync, r.hook.promise>>
        /\ interceptors' = interceptors
        /\ last'.thrown = r.thrown

(* The step is the call of op by the view with the argument opt: the     *)
(* hook's op received what the view makes of opt.                          *)
PassedOn(op, view, opt) ==
    last'.op = op /\ last'.options = mergeOptions(view.options, opt)

(* C12: a tap* through hook.withOptions(d1) does what the same tap* on    *)
(* the hook does with the options in which the caller's keys stand over   *)
(* those of d1 (a bare string being its name); through                    *)
(* hook.withOptions(d1).withOptions(d2) the caller's keys stand over      *)
(* those of d2 and those of d2 over those of d1.                          *)
C12_ViewMergesDefaultsUnderCaller ==
    [][\A d1 \in Defaults1, opt \in ViewOptions :
          /\ PassedOn("tap", withOptions(d1), opt) =>
                RegistersDirectly("sync",
                    Precedence(opt, EmptyOptions, d1), Len(taps) + 1)
          /\ PassedOn("tapPromise", withOptions(d1), opt) =>
                RegistersDirectly("promise",
                    Precedence(opt, EmptyOptions, d1), Len(taps) + 1)
          /\ \A d2 \in Defaults2 :
                PassedOn("tapAsync",
                         viewWithOptions(withOptions(d1), d2), opt)
                    => RegistersDirectly("async",
                           Precedence(opt, d2, d1), Len(taps) + 1)]_vars

(* Through the chain of {stage: 1, ...} and {stage: -1}: "a" was stored   *)
(* with stage -1 and { name: "b", stage: 0 } with stage 0.                *)
C12_Witness ==
    /\ Len(taps) = 2
    /\ \E i, j \in 1..2 :
          /\ taps[i].type = "async" /\ taps[i].name = A
          /\ taps[i].stage = {0 - 1}
          /\ taps[j].type = "async" /\ taps[j].name = B
          /\ taps[j].stage = {0}

-----------------------------------------------------------------------------
(* isUsed and MultiHook, Hook.js 195-197 and 299-342.  The MultiHook is   *)
(* new MultiHook([first, second]) over the first hook and sibling; it     *)
(* has no field but hooks and name.                                       *)

(* Variant of isUsed that looks at the taps alone. *)
isUsedByTaps(h) == Len(h.taps) > 0

(* h.isUsed(), Hook.js 195-197. *)
isUsed(h) == Len(h.taps) > 0 \/ Len(h.interceptors) > 0

(* this.hooks of the MultiHook. *)
hooks == <<This, sibling>>

(* The loop of MultiHook.isUsed, Hook.js 324-327, from index k on. *)
RECURSIVE isUsedFrom(_, _)
isUsedFrom(hs, k) ==
    IF k > Len(hs) THEN FALSE
    ELSE IF isUsed(hs[k]) THEN TRUE
    ELSE isUsedFrom(hs, k + 1)

MultiHook_isUsed == isUsedFrom(hooks, 1)

(* Variant of MultiHook_tapLoop that calls the first hook alone. *)
tapFirstOnly(op, type, options, fn) == _tap(op, type, options, fn)

(* The loops of MultiHook.tap, tapAsync and tapPromise, Hook.js 305-321:  *)
(* hook.tap*(options, fn) on the first hook, then on the second; a throw  *)
(* leaves the loop.                                                       *)
MultiHook_tapLoop(op, type, options, fn) ==
    \E r1 \in {tapOn(hooks[1], type, options, fn)},
       r2 \in {tapOn(hooks[2], type, options, fn)} :
        /\ taps' = r1.hook.taps
        /\ call' = r1.hook.call
        /\ callAsync' = r1.hook.callAsync
        /\ promise' = r1.hook.promise
        /\ sibling' = IF r1.thrown = NoError THEN r2.hook ELSE sibling
        /\ last' = Last(op, options,
                        IF r1.thrown = NoError THEN r2.thrown ELSE r1.thrown,
                        0)
        /\ UNCHANGED <<interceptors, compile, inflight>>

MultiHook_tap(options, fn) ==
    MultiHook_tapLoop("MultiHook.tap", "sync", options, fn)

MultiHook_tapAsync(options, fn) ==
    MultiHook_tapLoop("MultiHook.tapAsync", "async", options, fn)

MultiHook_tapPromise(options, fn) ==
    MultiHook_tapLoop("MultiHook.tapPromise", "promise", options, fn)

(* MultiHook.intercept, Hook.js 330-334. *)
MultiHook_intercept(interceptor) ==
    \E r1 \in {interceptOn(hooks[1], interceptor)},
       r2 \in {interceptOn(hooks[2], interceptor)} :
        /\ taps' = r1.hook.taps
        /\ interceptors' = r1.hook.interceptors
        /\ call' = r1.hook.call
        /\ callAsync' = r1.hook.callAsync
        /\ promise' = r1.hook.promise
        /\ sibling' = IF r1.thrown = NoError THEN r2.hook ELSE sibling
        /\ last' = Last("MultiHook.intercept", NoOptions,
                        IF r1.thrown = NoError THEN r2.thrown ELSE r1.thrown,
                        0)
        /\ UNCHANGED <<compile, inflight>>

(* second.tap(options, fn): tap called on the second hook itself. *)
siblingTap(options, fn) ==
    \E r \in {tapOn(sibling, "sync", options, fn)} :
        /\ sibling' = r.hook
        /\ last' = Last("sibling.tap", options, r.thrown, r.asked)
        /\ UNCHANGED <<taps, interceptors, call, callAsync, promise,
                       compile, inflight>>

-----------------------------------------------------------------------------
(* SpecMulti: two hooks, tapped and intercepted one by one and through    *)
(* the MultiHook; the first hook is also called.                          *)

MaxMultiTaps == 2          \* no tap on a hook whose list has this length
MaxMultiInterceptors == 1  \* the same for its interceptors

MultiOptions ==
    { StringOptions(A),
      ObjectOptions(Str(B), {0 - 1}, NoBefore),
      StringOptions(<<Space>>) }

(* The options of the calls on one hook and of tapAsync and tapPromise. *)
SingleOptions == {StringOptions(A)}

AsyncOptions == {ObjectOptions(Str(B), {0 - 1}, NoBefore)}

SingleInterceptors == {Interceptor("undefined")}

MultiInterceptors == {Interceptor("none")}

(* A callback that no tap of either hook holds. *)
MultiCallbacks == {Len(taps) + Len(sibling.taps) + 1}

MultiCanTap(options) ==
    \/ tapError(options) # NoError
    \/ Len(taps) < MaxMultiTaps /\ Len(sibling.taps) < MaxMultiTaps

NextMulti ==
    \/ \E options \in SingleOptions, fn \in MultiCallbacks :
          MultiCanTap(options) /\ tap(options, fn)
    \/ \E options \in SingleOptions, fn \in MultiCallbacks :
          MultiCanTap(options) /\ siblingTap(options, fn)
    \/ \E interceptor \in SingleInterceptors :
          Len(interceptors) < MaxMultiInterceptors /\ intercept(interceptor)
    \/ \E options \in MultiOptions, fn \in MultiCallbacks :
          MultiCanTap(options) /\ MultiHook_tap(options, fn)
    \/ \E options \in AsyncOptions, fn \in MultiCallbacks :
          MultiCanTap(options) /\ MultiHook_tapAsync(options, fn)
    \/ \E options \in AsyncOptions, fn \in MultiCallbacks :
          MultiCanTap(options) /\ MultiHook_tapPromise(options, fn)
    \/ \E interceptor \in MultiInterceptors :
          /\ Len(interceptors) < MaxMultiInterceptors
          /\ Len(sibling.interceptors) < MaxMultiInterceptors
          /\ MultiHook_intercept(interceptor)
    \/ invoke("call", "sync")
    \/ finish

SpecMulti == InitOrder /\ [][NextMulti]_vars

-----------------------------------------------------------------------------
(* Properties of SpecMulti. *)

MultiTapOps == {"MultiHook.tap", "MultiHook.tapAsync", "MultiHook.tapPromise"}

(* The hooks (1 the first, 2 the second) the operation op was called on. *)
Targets(op) ==
    IF op \in TapOps \cup {"intercept"} THEN {1}
    ELSE IF op = "sibling.tap" THEN {2}
    ELSE IF op \in MultiTapOps \cup {"MultiHook.intercept"} THEN {1, 2}
    ELSE {}

IsTapOp(op) == op \in TapOps \cup MultiTapOps \cup {"sibling.tap"}

IsInterceptOp(op) == op \in {"intercept", "MultiHook.intercept"}

(* C13: isUsed() of a hook is false when the hook is new and stays so     *)
(* until a tap* or an intercept on that hook succeeds, from when on it is *)
(* true: a refused tap* and an operation on the other hook leave it as it *)
(* was; isUsed() of the MultiHook is true exactly when isUsed() of one of *)
(* its hooks is.                                                          *)
C13_IsUsedIffRegistered ==
    [][/\ last.op = "new" =>
              ~isUsed(hooks[1]) /\ ~isUsed(hooks[2]) /\ ~MultiHook_isUsed
       /\ \A k \in 1..2 :
              LET was == isUsed(hooks[k])
                  now == isUsed(hooks'[k])
                  acted == k \in Targets(last'.op)
              IN  /\ was => now
                  /\ ~acted => now = was
                  /\ (acted /\ IsInterceptOp(last'.op)) => now
                  /\ (acted /\ IsTapOp(last'.op) /\ last'.thrown = NoError)
                        => now
                  /\ (acted /\ IsTapOp(last'.op)
                            /\ last'.thrown \in {InvalidTapOptions, MissingName})
                        => now = was
       /\ MultiHook_isUsed' = (isUsed(hooks'[1]) \/ isUsed(hooks'[2]))]_vars

(* MultiHook.tap was refused for its name when the second hook had a tap  *)
(* and the first had nothing: the first is still unused, the MultiHook is *)
(* used.                                                                  *)
C13_Witness ==
    /\ last.op = "MultiHook.tap"
    /\ last.thrown = MissingName
    /\ ~isUsed(hooks[1])
    /\ isUsed(hooks[2])
    /\ MultiHook_isUsed

TypeOf(op) ==
    CASE op = "MultiHook.tap" -> "sync"
      [] op = "MultiHook.tapAsync" -> "async"
      [] op = "MultiHook.tapPromise" -> "promise"

Without(list, p) == SubSeq(list, 1, p - 1) \o SubSeq(list, p + 1, Len(list))

(* new is old with one more tap, of that name, type and fn, at the place  *)
(* _insert gives it in old, and with the three entry points at the stubs. *)
GrewByOne(old, new, type, name, fn) ==
    /\ new.interceptors = old.interceptors
    /\ <<new.call, new.callAsync, new.promise>> = <<_call, _callAsync, _promise>>
    /\ \E p \in 1..Len(new.taps) :
          /\ new.taps[p] # Undefined
          /\ new.taps[p].name = name
          /\ new.taps[p].type = type
          /\ new.taps[p].fn = fn
          /\ Without(new.taps, p) = old.taps
          /\ p = _insert(old.taps, new.taps[p]).i + 1

(* C14: when MultiHook.tap, tapAsync or tapPromise returns, each of its   *)
(* hooks holds one tap more, of the name, type and fn of the call, at the *)
(* place that hook's own list gives it, and has its entry points at the   *)
(* stubs; MultiHook.intercept appends the interceptor to each hook's      *)
(* interceptors.  The state of the MultiHook is that of its hooks.        *)
C14_MultiHookForwardsToEveryHook ==
    [][/\ (last'.op \in MultiTapOps /\ last'.thrown = NoError) =>
              \A k \in 1..2 :
                  GrewByOne(hooks[k], hooks'[k], TypeOf(last'.op),
                            KeysOf(last'.options).name.s,
                            Len(taps) + Len(sibling.taps) + 1)
       /\ last'.op = "MultiHook.intercept" =>
              \E interceptor \in MultiInterceptors :
                  \A k \in 1..2 :
                      /\ hooks'[k].interceptors =
                            Append(hooks[k].interceptors, interceptor)
                      /\ hooks'[k].call = _call]_vars

(* MultiHook.tapAsync of { name: "b", stage: -1 } from inside a running   *)
(* call of the first hook: the tap stands first in both hooks, whose      *)
(* lists differ in length, and the first hook's call is the stub again.   *)
C14_Witness ==
    /\ last.op = "MultiHook.tapAsync"
    /\ last.thrown = NoError
    /\ IsCompiled(inflight)
    /\ AllStubs
    /\ Len(taps) = 2 /\ Len(sibling.taps) = 1
    /\ taps[1].name = B /\ taps[1].type = "async"
    /\ sibling.taps[1] = taps[1]

-----------------------------------------------------------------------------
(* SpecInsert: registration as in SpecOrder, with three names, so that    *)
(* lists of three taps of distinct names arise.                           *)

MaxInsertTaps == 3      \* tap is not called on a list of this length

InsertOptions ==
    {ObjectOptions(Str(name), stage, before) :
        name \in {A, B, Z},
        stage \in {{}, {1}},
        before \in {NoBefore, BeforeString(A), BeforeArray({A, B})}}

NextInsert ==
    \E options \in InsertOptions, fn \in Callbacks :
        Len(taps) < MaxInsertTaps /\ tap(options, fn)

SpecInsert == InitOrder /\ [][NextInsert]_vars

-----------------------------------------------------------------------------
(* Properties of SpecInsert. *)

(* The taps T of the claim: every tap of the list that before names       *)
(* stands after position k, and the stage of the tap at k is not greater  *)
(* than the stage of the item.                                            *)
MayFollow(list, k, stage, before) ==
    /\ \A q \in 1..Len(list) : list[q].name \in before.names => q > k
    /\ StageOrZero(list[k]) <= StageOrZero([stage |-> stage])

(* The number of taps that stand before the item when it is placed right  *)
(* after the rightmost such T, or at the front when there is none.        *)
ClaimedIndex(list, stage, before) ==
    LET S == {k \in 1..Len(list) : MayFollow(list, k, stage, before)}
    IN  IF S = {} THEN 0 ELSE CHOOSE k \in S : \A m \in S : m <= k

(* C15: on a list of taps of distinct names, _insert puts a tap of any    *)
(* stage and before right after the rightmost tap T that stands before    *)
(* every tap its before names and whose stage (default 0) is not greater  *)
(* than its own, and at the front when there is no such T.                *)
C15_InsertionPoint ==
    UniqueNames =>
        \A stage \in Stages, before \in BeforeValues :
            LET r == _insert(taps, Item(Z, stage, before))
            IN  /\ r.thrown = NoError
                /\ r.i = ClaimedIndex(taps, stage, before)
                /\ r.taps[r.i + 1] = Item(Z, stage, before)

(* A tap of stage 0 with before: "a" was inserted into [b, a], both of    *)
(* stage 1: it went ahead of a, which its before names, and on ahead of   *)
(* b, whose stage is greater, to the front.                               *)
C15_Witness ==
    /\ Len(taps) = 3
    /\ UniqueNames
    /\ NewestAt(1)
    /\ taps[1].stage = {} /\ taps[1].before = BeforeString(A)
    /\ taps[2].name = B /\ taps[2].stage = {1}
    /\ taps[3].name = A /\ taps[3].stage = {1}

-----------------------------------------------------------------------------
(* Further properties of SpecOrder. *)

(* C16: after any registrations, with before and stage together too, the  *)
(* tap list is non-decreasing in stage, a missing stage counting as 0.    *)
C16_StageOrderKeptWithBefore ==
    \A i, j \in 1..Len(taps) :
        i < j => StageOrZero(taps[i]) <= StageOrZero(taps[j])

(* C18: inserting a tap whose before is its own name gives, on every      *)
(* list, a list that holds a tap of that name included, the list that     *)
(* inserting it without before gives, and throws nothing.                 *)
C18_OwnNameBeforeIsNoOp ==
    \A name \in Names, stage \in Stages :
        SameButBefore(_insert(taps, Item(name, stage, BeforeString(name))),
                      _insert(taps, Item(name, stage, NoBefore)))

-----------------------------------------------------------------------------
(* Further properties of SpecRegister. *)

(* What the register phase of one interceptor hands on: what register     *)
(* returns, or its input when it has no register or returns nothing.      *)
HandsOn(interceptor, rec) ==
    IF interceptor.register = "none" THEN rec
    ELSE IF register(interceptor, rec) = Undefined THEN rec
    ELSE register(interceptor, rec)

(* The output of the n-th interceptor of ics when the first is given rec  *)
(* and each one the output of the one before it.                          *)
RECURSIVE OutputOf(_, _, _)
OutputOf(ics, n, rec) ==
    IF n = 0 THEN rec ELSE HandsOn(ics[n], OutputOf(ics, n - 1, rec))

(* C17: a tap registered on a hook with several interceptors is stored as *)
(* the output of the last interceptor, each interceptor having received   *)
(* the output of the one attached before it and the first the tap as the  *)
(* caller gave it.                                                        *)
C17_RegisterChainInOrder ==
    [][(last'.op = "tap" /\ last'.thrown = NoError) =>
          LET out == OutputOf(interceptors, Len(interceptors),
                              tapRecord("sync", last'.options, Len(taps) + 1))
          IN  \E p \in 1..Len(taps') :
                  /\ taps'[p] = out
                  /\ Without(taps', p) = taps]_vars

(* With the interceptors of stage: -1 and of stage: 1, before: "a"        *)
(* attached in this order, a tap was stored with stage 1 and before "a".  *)
C17_Witness ==
    /\ last.op = "tap"
    /\ last.thrown = NoError
    /\ interceptors = <<Interceptor("stage"), Interceptor("before")>>
    /\ \E p \in 1..Len(taps) :
          /\ taps[p] # Undefined
          /\ taps[p].fn = Len(taps)
          /\ taps[p].stage = {1}
          /\ taps[p].before = BeforeString(A)

(* C19: a successful tap* makes the list one longer and leaves the taps   *)
(* it held where they were relative to each other; a tap* that throws and *)
(* an intercept leave its length as it was, so that the length is the     *)
(* number of successful tap* calls.                                       *)
C19_LengthCountsSuccessfulTaps ==
    [][/\ (last'.op \in TapOps /\ last'.thrown = NoError) =>
              \E p \in 1..Len(taps') : Without(taps', p) = taps
       /\ (last'.op \in TapOps /\ last'.thrown # NoError) =>
              Len(taps') = Len(taps)
       /\ last'.op = "intercept" => Len(taps') = Len(taps)]_vars

-----------------------------------------------------------------------------
(* SpecReentrant: registration, interception and call on a hook whose     *)
(* interceptors may carry a register callback that calls hook.call.       *)

MaxReTaps == 2          \* tap is not called on a list of this length
MaxReInterceptors == 2  \* the same for intercept and the interceptors

ReentrantInterceptors == {Interceptor("none"), Interceptor("reenter")}

NextReentrant ==
    \/ \E options \in RegisterOptions, fn \in Callbacks :
          Len(taps) < MaxReTaps /\ tap(options, fn)
    \/ \E interceptor \in ReentrantInterceptors :
          Len(interceptors) < MaxReInterceptors /\ intercept(interceptor)
    \/ invoke("call", "sync")
    \/ finish

SpecReentrant == InitOrder /\ [][NextReentrant]_vars

-----------------------------------------------------------------------------
(* Properties of SpecReentrant. *)

(* C20: in the state in which a tap* or an intercept has returned, every  *)
(* entry point that is not its stub holds a function compiled from the    *)
(* tap list and the interceptor list as they are in that state, register  *)
(* callbacks that call the hook included.                                 *)
C20_CoherentAfterReentrantRegister ==
    (last.op \in TapOps \cup {"intercept"} /\ last.thrown = NoError)
        => NoStaleEntry

=============================================================================
